---- MODULE Spec2Model ----
(***************************************************************************)
(* The query classifier and prompt composer of TelecomPromptGenerator      *)
(* (src/telecom-llm-assistant.py).                                         *)
(*                                                                         *)
(* Text is a sequence of tokens.  A query and a keyword phrase are         *)
(* sequences of one-character strings, so that lower-casing and the        *)
(* substring test are computed character by character.  The literal text   *)
(* of the templates and of the f-string is kept as whole-line tokens,      *)
(* with "\n" a token of its own, so that split and join act on it.         *)
(*                                                                         *)
(* A confidence score is an integer number of tenths: the code's floats    *)
(* take only the values 0, 0.3, 0.6, 0.8999999999999999 and 1.0 below the  *)
(* clamp, and they compare with each other and with the threshold 0.3, and *)
(* print under :.2f, as the tenths 0, 3, 6, 9 and 10 do.                   *)
(***************************************************************************)
EXTENDS Integers, Sequences, FiniteSets, TLC

(* class QueryType(Enum): the members in declaration order. *)
QueryType ==
  << "PROCEDURE", "ARCHITECTURE", "PROTOCOL", "INTERFACE", "SECURITY",
     "PERFORMANCE", "QOS", "RELIABILITY", "DEPLOYMENT", "INTERWORKING",
     "MIGRATION", "TROUBLESHOOTING", "COMPLIANCE", "FEATURE", "GENERAL" >>

(* QueryType.<member>.value *)
value ==
     "PROCEDURE" :> "procedure" @@ "ARCHITECTURE" :> "architecture"
  @@ "PROTOCOL" :> "protocol" @@ "INTERFACE" :> "interface"
  @@ "SECURITY" :> "security" @@ "PERFORMANCE" :> "performance"
  @@ "QOS" :> "qos" @@ "RELIABILITY" :> "reliability"
  @@ "DEPLOYMENT" :> "deployment" @@ "INTERWORKING" :> "interworking"
  @@ "MIGRATION" :> "migration" @@ "TROUBLESHOOTING" :> "troubleshooting"
  @@ "COMPLIANCE" :> "compliance" @@ "FEATURE" :> "feature"
  @@ "GENERAL" :> "general"

(* str(member), the key of keywords_matched *)
str(t) == "QueryType." \o t

(* QUERY_KEYWORDS, src lines 38-109: every keyword phrase is a sequence of   *)
(* characters, every tier a list in declared order.                         *)
QUERY_KEYWORDS ==
     "PROCEDURE" :> [
       \* 'procedure', 'process', 'flow', 'step', 'sequence', 'operation'
       high_priority |-> <<
         <<"p","r","o","c","e","d","u","r","e">>,
         <<"p","r","o","c","e","s","s">>,
         <<"f","l","o","w">>,
         <<"s","t","e","p">>,
         <<"s","e","q","u","e","n","c","e">>,
         <<"o","p","e","r","a","t","i","o","n">>
       >>,
       \* 'how to', 'when', 'trigger', 'initiate', 'handle'
       medium_priority |-> <<
         <<"h","o","w"," ","t","o">>,
         <<"w","h","e","n">>,
         <<"t","r","i","g","g","e","r">>,
         <<"i","n","i","t","i","a","t","e">>,
         <<"h","a","n","d","l","e">>
       >>,
       \* 'do', 'perform', 'execute'
       low_priority |-> <<
         <<"d","o">>,
         <<"p","e","r","f","o","r","m">>,
         <<"e","x","e","c","u","t","e">>
       >> ]
  @@ "ARCHITECTURE" :> [
       \* 'architecture', 'structure', 'framework', 'design', 'topology'
       high_priority |-> <<
         <<"a","r","c","h","i","t","e","c","t","u","r","e">>,
         <<"s","t","r","u","c","t","u","r","e">>,
         <<"f","r","a","m","e","w","o","r","k">>,
         <<"d","e","s","i","g","n">>,
         <<"t","o","p","o","l","o","g","y">>
       >>,
       \* 'component', 'element', 'node', 'entity', 'function'
       medium_priority |-> <<
         <<"c","o","m","p","o","n","e","n","t">>,
         <<"e","l","e","m","e","n","t">>,
         <<"n","o","d","e">>,
         <<"e","n","t","i","t","y">>,
         <<"f","u","n","c","t","i","o","n">>
       >>,
       \* 'system', 'network', 'setup'
       low_priority |-> <<
         <<"s","y","s","t","e","m">>,
         <<"n","e","t","w","o","r","k">>,
         <<"s","e","t","u","p">>
       >> ]
  @@ "PROTOCOL" :> [
       \* 'protocol', 'signaling', 'message', 'packet', 'format'
       high_priority |-> <<
         <<"p","r","o","t","o","c","o","l">>,
         <<"s","i","g","n","a","l","i","n","g">>,
         <<"m","e","s","s","a","g","e">>,
         <<"p","a","c","k","e","t">>,
         <<"f","o","r","m","a","t">>
       >>,
       \* 'header', 'payload', 'encoding', 'decoding', 'stack'
       medium_priority |-> <<
         <<"h","e","a","d","e","r">>,
         <<"p","a","y","l","o","a","d">>,
         <<"e","n","c","o","d","i","n","g">>,
         <<"d","e","c","o","d","i","n","g">>,
         <<"s","t","a","c","k">>
       >>,
       \* 'communicate', 'exchange', 'transfer'
       low_priority |-> <<
         <<"c","o","m","m","u","n","i","c","a","t","e">>,
         <<"e","x","c","h","a","n","g","e">>,
         <<"t","r","a","n","s","f","e","r">>
       >> ]
  @@ "INTERFACE" :> [
       \* 'interface', 'reference point', 'connection', 'link'
       high_priority |-> <<
         <<"i","n","t","e","r","f","a","c","e">>,
         <<"r","e","f","e","r","e","n","c","e"," ","p","o","i","n","t">>,
         <<"c","o","n","n","e","c","t","i","o","n">>,
         <<"l","i","n","k">>
       >>,
       \* 'between', 'connects to', 'interconnection'
       medium_priority |-> <<
         <<"b","e","t","w","e","e","n">>,
         <<"c","o","n","n","e","c","t","s"," ","t","o">>,
         <<"i","n","t","e","r","c","o","n","n","e","c","t","i","o","n">>
       >>,
       \* 'connect', 'communicate'
       low_priority |-> <<
         <<"c","o","n","n","e","c","t">>,
         <<"c","o","m","m","u","n","i","c","a","t","e">>
       >> ]
  @@ "SECURITY" :> [
       \* 'security', 'authentication', 'encryption', 'integrity', 'privacy'
       high_priority |-> <<
         <<"s","e","c","u","r","i","t","y">>,
         <<"a","u","t","h","e","n","t","i","c","a","t","i","o","n">>,
         <<"e","n","c","r","y","p","t","i","o","n">>,
         <<"i","n","t","e","g","r","i","t","y">>,
         <<"p","r","i","v","a","c","y">>
       >>,
       \* 'protect', 'secure', 'cipher', 'key', 'credential'
       medium_priority |-> <<
         <<"p","r","o","t","e","c","t">>,
         <<"s","e","c","u","r","e">>,
         <<"c","i","p","h","e","r">>,
         <<"k","e","y">>,
         <<"c","r","e","d","e","n","t","i","a","l">>
       >>,
       \* 'safe', 'guard', 'threat'
       low_priority |-> <<
         <<"s","a","f","e">>,
         <<"g","u","a","r","d">>,
         <<"t","h","r","e","a","t">>
       >> ]
  @@ "PERFORMANCE" :> [
       \* 'performance', 'throughput', 'latency', 'bandwidth', 'capacity'
       high_priority |-> <<
         <<"p","e","r","f","o","r","m","a","n","c","e">>,
         <<"t","h","r","o","u","g","h","p","u","t">>,
         <<"l","a","t","e","n","c","y">>,
         <<"b","a","n","d","w","i","d","t","h">>,
         <<"c","a","p","a","c","i","t","y">>
       >>,
       \* 'speed', 'efficiency', 'optimization', 'metric'
       medium_priority |-> <<
         <<"s","p","e","e","d">>,
         <<"e","f","f","i","c","i","e","n","c","y">>,
         <<"o","p","t","i","m","i","z","a","t","i","o","n">>,
         <<"m","e","t","r","i","c">>
       >>,
       \* 'fast', 'slow', 'measure'
       low_priority |-> <<
         <<"f","a","s","t">>,
         <<"s","l","o","w">>,
         <<"m","e","a","s","u","r","e">>
       >> ]
  @@ "QOS" :> [
       \* 'qos', 'quality of service', 'priority', 'class', 'bearer'
       high_priority |-> <<
         <<"q","o","s">>,
         <<"q","u","a","l","i","t","y"," ","o","f"," ","s","e","r","v","i","c","e">>,
         <<"p","r","i","o","r","i","t","y">>,
         <<"c","l","a","s","s">>,
         <<"b","e","a","r","e","r">>
       >>,
       \* 'traffic', 'flow', 'guarantee', 'requirement'
       medium_priority |-> <<
         <<"t","r","a","f","f","i","c">>,
         <<"f","l","o","w">>,
         <<"g","u","a","r","a","n","t","e","e">>,
         <<"r","e","q","u","i","r","e","m","e","n","t">>
       >>,
       \* 'quality', 'service'
       low_priority |-> <<
         <<"q","u","a","l","i","t","y">>,
         <<"s","e","r","v","i","c","e">>
       >> ]
  @@ "RELIABILITY" :> [
       \* 'reliability', 'availability', 'redundancy', 'resilience'
       high_priority |-> <<
         <<"r","e","l","i","a","b","i","l","i","t","y">>,
         <<"a","v","a","i","l","a","b","i","l","i","t","y">>,
         <<"r","e","d","u","n","d","a","n","c","y">>,
         <<"r","e","s","i","l","i","e","n","c","e">>
       >>,
       \* 'failover', 'backup', 'recovery', 'robust'
       medium_priority |-> <<
         <<"f","a","i","l","o","v","e","r">>,
         <<"b","a","c","k","u","p">>,
         <<"r","e","c","o","v","e","r","y">>,
         <<"r","o","b","u","s","t">>
       >>,
       \* 'stable', 'reliable', 'maintain'
       low_priority |-> <<
         <<"s","t","a","b","l","e">>,
         <<"r","e","l","i","a","b","l","e">>,
         <<"m","a","i","n","t","a","i","n">>
       >> ]
  @@ "DEPLOYMENT" :> [
       \* 'deployment', 'installation', 'configuration', 'setup'
       high_priority |-> <<
         <<"d","e","p","l","o","y","m","e","n","t">>,
         <<"i","n","s","t","a","l","l","a","t","i","o","n">>,
         <<"c","o","n","f","i","g","u","r","a","t","i","o","n">>,
         <<"s","e","t","u","p">>
       >>,
       \* 'implement', 'roll out', 'provision', 'integrate'
       medium_priority |-> <<
         <<"i","m","p","l","e","m","e","n","t">>,
         <<"r","o","l","l"," ","o","u","t">>,
         <<"p","r","o","v","i","s","i","o","n">>,
         <<"i","n","t","e","g","r","a","t","e">>
       >>,
       \* 'deploy', 'install', 'configure'
       low_priority |-> <<
         <<"d","e","p","l","o","y">>,
         <<"i","n","s","t","a","l","l">>,
         <<"c","o","n","f","i","g","u","r","e">>
       >> ]
  @@ "INTERWORKING" :> [
       \* 'interworking', 'interoperability', 'compatibility', 'integration'
       high_priority |-> <<
         <<"i","n","t","e","r","w","o","r","k","i","n","g">>,
         <<"i","n","t","e","r","o","p","e","r","a","b","i","l","i","t","y">>,
         <<"c","o","m","p","a","t","i","b","i","l","i","t","y">>,
         <<"i","n","t","e","g","r","a","t","i","o","n">>
       >>,
       \* 'interact', 'work together', 'coordinate'
       medium_priority |-> <<
         <<"i","n","t","e","r","a","c","t">>,
         <<"w","o","r","k"," ","t","o","g","e","t","h","e","r">>,
         <<"c","o","o","r","d","i","n","a","t","e">>
       >>,
       \* 'between', 'with'
       low_priority |-> <<
         <<"b","e","t","w","e","e","n">>,
         <<"w","i","t","h">>
       >> ]
  @@ "MIGRATION" :> [
       \* 'migration', 'upgrade', 'transition', 'evolution'
       high_priority |-> <<
         <<"m","i","g","r","a","t","i","o","n">>,
         <<"u","p","g","r","a","d","e">>,
         <<"t","r","a","n","s","i","t","i","o","n">>,
         <<"e","v","o","l","u","t","i","o","n">>
       >>,
       \* 'move to', 'change', 'transform'
       medium_priority |-> <<
         <<"m","o","v","e"," ","t","o">>,
         <<"c","h","a","n","g","e">>,
         <<"t","r","a","n","s","f","o","r","m">>
       >>,
       \* 'new', 'old', 'legacy'
       low_priority |-> <<
         <<"n","e","w">>,
         <<"o","l","d">>,
         <<"l","e","g","a","c","y">>
       >> ]
  @@ "TROUBLESHOOTING" :> [
       \* 'troubleshoot', 'debug', 'diagnose', 'problem', 'issue'
       high_priority |-> <<
         <<"t","r","o","u","b","l","e","s","h","o","o","t">>,
         <<"d","e","b","u","g">>,
         <<"d","i","a","g","n","o","s","e">>,
         <<"p","r","o","b","l","e","m">>,
         <<"i","s","s","u","e">>
       >>,
       \* 'error', 'fault', 'failure', 'fix'
       medium_priority |-> <<
         <<"e","r","r","o","r">>,
         <<"f","a","u","l","t">>,
         <<"f","a","i","l","u","r","e">>,
         <<"f","i","x">>
       >>,
       \* 'wrong', 'fail', 'break'
       low_priority |-> <<
         <<"w","r","o","n","g">>,
         <<"f","a","i","l">>,
         <<"b","r","e","a","k">>
       >> ]
  @@ "COMPLIANCE" :> [
       \* 'compliance', 'standard', 'regulation', 'requirement'
       high_priority |-> <<
         <<"c","o","m","p","l","i","a","n","c","e">>,
         <<"s","t","a","n","d","a","r","d">>,
         <<"r","e","g","u","l","a","t","i","o","n">>,
         <<"r","e","q","u","i","r","e","m","e","n","t">>
       >>,
       \* 'conform', 'adhere', 'follow', 'meet'
       medium_priority |-> <<
         <<"c","o","n","f","o","r","m">>,
         <<"a","d","h","e","r","e">>,
         <<"f","o","l","l","o","w">>,
         <<"m","e","e","t">>
       >>,
       \* 'rule', 'guideline', 'specification'
       low_priority |-> <<
         <<"r","u","l","e">>,
         <<"g","u","i","d","e","l","i","n","e">>,
         <<"s","p","e","c","i","f","i","c","a","t","i","o","n">>
       >> ]
  @@ "FEATURE" :> [
       \* 'feature', 'capability', 'functionality', 'service'
       high_priority |-> <<
         <<"f","e","a","t","u","r","e">>,
         <<"c","a","p","a","b","i","l","i","t","y">>,
         <<"f","u","n","c","t","i","o","n","a","l","i","t","y">>,
         <<"s","e","r","v","i","c","e">>
       >>,
       \* 'support', 'provide', 'enable', 'offer'
       medium_priority |-> <<
         <<"s","u","p","p","o","r","t">>,
         <<"p","r","o","v","i","d","e">>,
         <<"e","n","a","b","l","e">>,
         <<"o","f","f","e","r">>
       >>,
       \* 'can', 'able', 'function'
       low_priority |-> <<
         <<"c","a","n">>,
         <<"a","b","l","e">>,
         <<"f","u","n","c","t","i","o","n">>
       >> ]

QUERY_KEYWORDS_keys ==
  <<"PROCEDURE", "ARCHITECTURE", "PROTOCOL", "INTERFACE", "SECURITY", "PERFORMANCE", "QOS", "RELIABILITY", "DEPLOYMENT", "INTERWORKING", "MIGRATION", "TROUBLESHOOTING", "COMPLIANCE", "FEATURE">>

SPECIALIZED_CONTEXTS ==
     "PROCEDURE" :> <<
       "\n",
       "        For procedure-related queries:", "\n",
       "        - Provide a clear step-by-step breakdown", "\n",
       "        - Include sequence diagrams if relevant", "\n",
       "        - List all involved network elements", "\n",
       "        - Detail message flows and parameters", "\n",
       "        - Specify preconditions and postconditions", "\n",
       "        - Highlight potential error scenarios", "\n",
       "        - Reference relevant 3GPP specifications (TS documents)", "\n",
       "        " >>
  @@ "ARCHITECTURE" :> <<
       "\n",
       "        For architecture-related queries:", "\n",
       "        - Describe overall architecture structure", "\n",
       "        - Detail component roles and responsibilities", "\n",
       "        - Explain interfaces and reference points", "\n",
       "        - Discuss deployment considerations", "\n",
       "        - Include scalability aspects", "\n",
       "        - Mention virtualization options", "\n",
       "        - Reference relevant 3GPP specifications", "\n",
       "        " >>
  @@ "PROTOCOL" :> <<
       "\n",
       "        For protocol-related queries:", "\n",
       "        - Explain protocol stack placement", "\n",
       "        - Detail message formats and fields", "\n",
       "        - Describe state machines", "\n",
       "        - List supported procedures", "\n",
       "        - Include protocol parameters", "\n",
       "        - Discuss protocol extensions", "\n",
       "        - Reference relevant 3GPP specifications", "\n",
       "        " >>
  @@ "INTERFACE" :> <<
       "\n",
       "        For interface-related queries:", "\n",
       "        - Define connected network elements", "\n",
       "        - List supported protocols", "\n",
       "        - Detail interface requirements", "\n",
       "        - Explain message flows", "\n",
       "        - Describe interface configuration", "\n",
       "        - Include performance aspects", "\n",
       "        - Reference relevant 3GPP specifications", "\n",
       "        " >>
  @@ "SECURITY" :> <<
       "\n",
       "        For security-related queries:", "\n",
       "        - Explain security mechanisms", "\n",
       "        - Detail key management", "\n",
       "        - Describe authentication flows", "\n",
       "        - List security features", "\n",
       "        - Include threat mitigations", "\n",
       "        - Discuss privacy aspects", "\n",
       "        - Reference relevant 3GPP specifications", "\n",
       "        " >>
  @@ "PERFORMANCE" :> <<
       "\n",
       "        For performance-related queries:", "\n",
       "        - List key performance indicators", "\n",
       "        - Provide measurement methods", "\n",
       "        - Include benchmark data", "\n",
       "        - Detail optimization options", "\n",
       "        - Discuss scaling factors", "\n",
       "        - Explain monitoring approaches", "\n",
       "        - Reference relevant 3GPP specifications", "\n",
       "        " >>
  @@ "QOS" :> <<
       "\n",
       "        For QoS-related queries:", "\n",
       "        - Define QoS parameters", "\n",
       "        - Explain QoS flows", "\n",
       "        - Detail QoS handling", "\n",
       "        - List QoS classes", "\n",
       "        - Include mapping rules", "\n",
       "        - Discuss enforcement methods", "\n",
       "        - Reference relevant 3GPP specifications", "\n",
       "        " >>
  @@ "RELIABILITY" :> <<
       "\n",
       "        For reliability-related queries:", "\n",
       "        - Explain redundancy mechanisms", "\n",
       "        - Detail failover procedures", "\n",
       "        - Describe recovery methods", "\n",
       "        - List availability features", "\n",
       "        - Include monitoring aspects", "\n",
       "        - Discuss SLA considerations", "\n",
       "        - Reference relevant 3GPP specifications", "\n",
       "        " >>
  @@ "DEPLOYMENT" :> <<
       "\n",
       "        For deployment-related queries:", "\n",
       "        - Provide deployment options", "\n",
       "        - List prerequisites", "\n",
       "        - Detail configuration steps", "\n",
       "        - Include best practices", "\n",
       "        - Discuss scaling aspects", "\n",
       "        - Explain maintenance procedures", "\n",
       "        - Reference relevant 3GPP specifications", "\n",
       "        " >>
  @@ "INTERWORKING" :> <<
       "\n",
       "        For interworking-related queries:", "\n",
       "        - Explain interworking mechanisms", "\n",
       "        - Detail protocol conversions", "\n",
       "        - List supported features", "\n",
       "        - Include limitations", "\n",
       "        - Discuss compatibility aspects", "\n",
       "        - Describe roaming scenarios", "\n",
       "        - Reference relevant 3GPP specifications", "\n",
       "        " >>
  @@ "MIGRATION" :> <<
       "\n",
       "        For migration-related queries:", "\n",
       "        - Provide migration paths", "\n",
       "        - Detail upgrade steps", "\n",
       "        - List compatibility issues", "\n",
       "        - Include rollback procedures", "\n",
       "        - Discuss impact analysis", "\n",
       "        - Explain testing approaches", "\n",
       "        - Reference relevant 3GPP specifications", "\n",
       "        " >>
  @@ "TROUBLESHOOTING" :> <<
       "\n",
       "        For troubleshooting-related queries:", "\n",
       "        - List common issues", "\n",
       "        - Provide diagnostic steps", "\n",
       "        - Detail resolution procedures", "\n",
       "        - Include logging aspects", "\n",
       "        - Discuss prevention methods", "\n",
       "        - Explain monitoring tools", "\n",
       "        - Reference relevant 3GPP specifications", "\n",
       "        " >>
  @@ "COMPLIANCE" :> <<
       "\n",
       "        For compliance-related queries:", "\n",
       "        - List applicable standards", "\n",
       "        - Detail requirements", "\n",
       "        - Explain conformance testing", "\n",
       "        - Include certification aspects", "\n",
       "        - Discuss validation methods", "\n",
       "        - Provide compliance checklist", "\n",
       "        - Reference relevant 3GPP specifications", "\n",
       "        " >>
  @@ "FEATURE" :> <<
       "\n",
       "        For feature-related queries:", "\n",
       "        - Explain feature capabilities", "\n",
       "        - Detail configuration options", "\n",
       "        - List dependencies", "\n",
       "        - Include limitations", "\n",
       "        - Discuss use cases", "\n",
       "        - Provide implementation guidance", "\n",
       "        - Reference relevant 3GPP specifications", "\n",
       "        " >>

SPECIALIZED_CONTEXTS_keys ==
  {"PROCEDURE", "ARCHITECTURE", "PROTOCOL", "INTERFACE", "SECURITY", "PERFORMANCE", "QOS", "RELIABILITY", "DEPLOYMENT", "INTERWORKING", "MIGRATION", "TROUBLESHOOTING", "COMPLIANCE", "FEATURE"}

(***************************************************************************)
(* Characters and str.lower().  The letter U+0131 (dotless i) is its own   *)
(* lower case; its upper case is the ASCII "I".                            *)
(***************************************************************************)
DotlessI == "U+0131"

ToLower ==
     "A" :> "a" @@ "B" :> "b" @@ "C" :> "c" @@ "D" :> "d" @@ "E" :> "e"
  @@ "F" :> "f" @@ "G" :> "g" @@ "H" :> "h" @@ "I" :> "i" @@ "J" :> "j"
  @@ "K" :> "k" @@ "L" :> "l" @@ "M" :> "m" @@ "N" :> "n" @@ "O" :> "o"
  @@ "P" :> "p" @@ "Q" :> "q" @@ "R" :> "r" @@ "S" :> "s" @@ "T" :> "t"
  @@ "U" :> "u" @@ "V" :> "v" @@ "W" :> "w" @@ "X" :> "x" @@ "Y" :> "y"
  @@ "Z" :> "z"

ToUpper ==
     "a" :> "A" @@ "b" :> "B" @@ "c" :> "C" @@ "d" :> "D" @@ "e" :> "E"
  @@ "f" :> "F" @@ "g" :> "G" @@ "h" :> "H" @@ "i" :> "I" @@ "j" :> "J"
  @@ "k" :> "K" @@ "l" :> "L" @@ "m" :> "M" @@ "n" :> "N" @@ "o" :> "O"
  @@ "p" :> "P" @@ "q" :> "Q" @@ "r" :> "R" @@ "s" :> "S" @@ "t" :> "T"
  @@ "u" :> "U" @@ "v" :> "V" @@ "w" :> "W" @@ "x" :> "X" @@ "y" :> "Y"
  @@ "z" :> "Z" @@ DotlessI :> "I"

(* A variant of lower: the query is compared as typed. *)
lower_skipped(s) == s

(* str.lower() *)
lower(s) == [i \in 1..Len(s) |-> IF s[i] \in DOMAIN ToLower THEN ToLower[s[i]] ELSE s[i]]

(* str.upper() *)
upper(s) == [i \in 1..Len(s) |-> IF s[i] \in DOMAIN ToUpper THEN ToUpper[s[i]] ELSE s[i]]

(* str.swapcase() *)
swapcase(s) ==
  [i \in 1..Len(s) |-> IF s[i] \in DOMAIN ToLower THEN ToLower[s[i]]
                       ELSE IF s[i] \in DOMAIN ToUpper THEN ToUpper[s[i]]
                       ELSE s[i]]

(* keyword in text: substring containment *)
Contains(keyword, text) ==
  \E i \in 1..(Len(text) - Len(keyword) + 1) :
    \A j \in 1..Len(keyword) : text[i + j - 1] = keyword[j]

(* The tiers of every QUERY_KEYWORDS entry, in the order the dict holds them. *)
Priorities == << "high_priority", "medium_priority", "low_priority" >>

(* The inner "for keyword in keywords: if keyword in query_lower: append". *)
MatchedKeywords(keywords, query_lower) ==
  SelectSeq(keywords, LAMBDA keyword : Contains(keyword, query_lower))

(* matches[query_type]: the tiers that got a keyword, in insertion order. *)
TierMatches(query_type, query_lower) ==
  LET all == [i \in 1..Len(Priorities) |->
                [priority |-> Priorities[i],
                 keywords |-> MatchedKeywords(QUERY_KEYWORDS[query_type][Priorities[i]],
                                              query_lower)]]
  IN  SelectSeq(all, LAMBDA e : e.keywords # << >>)

(* _calculate_keyword_matches: the defaultdict as the sequence of its items, *)
(* a type being inserted when its first keyword matches.                     *)
_calculate_keyword_matches(query) ==
  LET query_lower == lower(query)
      all == [i \in 1..Len(QUERY_KEYWORDS_keys) |->
                [query_type |-> QUERY_KEYWORDS_keys[i],
                 matches |-> TierMatches(QUERY_KEYWORDS_keys[i], query_lower)]]
  IN  SelectSeq(all, LAMBDA e : e.matches # << >>)

(* weights, in tenths *)
WeightHigh == 10
WeightMedium == 6
WeightLow == 3
weights ==
  [high_priority |-> WeightHigh, medium_priority |-> WeightMedium,
   low_priority |-> WeightLow]

(* min(score, 1.0), in tenths *)
ScoreCap == 10

RECURSIVE WeightedSum(_)
WeightedSum(matches) ==
  IF matches = << >> THEN 0
  ELSE Len(Head(matches).keywords) * weights[Head(matches).priority]
         + WeightedSum(Tail(matches))

Min(a, b) == IF a < b THEN a ELSE b

(* A variant of _calculate_confidence_score: the sum is returned unclamped. *)
_calculate_confidence_score_unclamped(matches) == WeightedSum(matches)

_calculate_confidence_score(matches) == Min(WeightedSum(matches), ScoreCap)

(* A variant of InsertByScore: an item goes before the items of its score, *)
(* as an unstable sort may place it.                                      *)
RECURSIVE InsertByScoreTiesFirst(_, _)
InsertByScoreTiesFirst(item, sorted_items) ==
  IF sorted_items = << >> THEN << item >>
  ELSE IF Head(sorted_items).score > item.score
       THEN << Head(sorted_items) >> \o InsertByScoreTiesFirst(item, Tail(sorted_items))
       ELSE << item >> \o sorted_items

(* sorted(type_scores.items(), key=lambda x: x[1], reverse=True): a stable *)
(* sort, items of equal score keeping the order they had.                  *)
RECURSIVE InsertByScore(_, _)
InsertByScore(item, sorted_items) ==
  IF sorted_items = << >> THEN << item >>
  ELSE IF Head(sorted_items).score >= item.score
       THEN << Head(sorted_items) >> \o InsertByScore(item, Tail(sorted_items))
       ELSE << item >> \o sorted_items

RECURSIVE SortByScoreDesc(_)
SortByScoreDesc(items) ==
  IF items = << >> THEN << >>
  ELSE InsertByScore(items[Len(items)], SortByScoreDesc(SubSeq(items, 1, Len(items) - 1)))

(* "if score > 0.3", in tenths *)
SecondaryThreshold == 3

(* A variant of GeneralClassification: full confidence in the fallback. *)
GeneralClassificationFullScore ==
  [primary_type |-> "GENERAL", secondary_types |-> {},
   confidence_score |-> ScoreCap, keywords_matched |-> << >>]

(* The classification returned when no type scored. *)
GeneralClassification ==
  [primary_type |-> "GENERAL", secondary_types |-> {},
   confidence_score |-> 0, keywords_matched |-> << >>]

(* type_scores: the items with confidence > 0, in insertion order. *)
TypeScores(keyword_matches) ==
  LET scored == [i \in 1..Len(keyword_matches) |->
                   [query_type |-> keyword_matches[i].query_type,
                    score |-> _calculate_confidence_score(keyword_matches[i].matches)]]
  IN  SelectSeq(scored, LAMBDA e : e.score > 0)

(* A variant of SecondaryTypes: "score >= 0.3". *)
SecondaryTypesInclusive(sorted_types) ==
  { sorted_types[i].query_type :
      i \in { j \in 2..Len(sorted_types) : sorted_types[j].score >= SecondaryThreshold } }

(* {query_type for query_type, score in sorted_types[1:] if score > 0.3} *)
SecondaryTypes(sorted_types) ==
  { sorted_types[i].query_type :
      i \in { j \in 2..Len(sorted_types) : sorted_types[j].score > SecondaryThreshold } }

(* A variant of KeywordsMatched: only the types that can be primary or *)
(* secondary are recorded.                                            *)
KeywordsMatchedCandidatesOnly(keyword_matches) ==
  LET kept == SelectSeq(keyword_matches,
                LAMBDA e : _calculate_confidence_score(e.matches) > SecondaryThreshold)
  IN  [i \in 1..Len(kept) |-> [key |-> str(kept[i].query_type), val |-> kept[i].matches]]

(* {str(k): dict(v) for k, v in keyword_matches.items() if v} *)
KeywordsMatched(keyword_matches) ==
  LET kept == SelectSeq(keyword_matches, LAMBDA e : e.matches # << >>)
  IN  [i \in 1..Len(kept) |-> [key |-> str(kept[i].query_type), val |-> kept[i].matches]]

_classify_query(query) ==
  LET keyword_matches == _calculate_keyword_matches(query)
      type_scores == TypeScores(keyword_matches)
      sorted_types == SortByScoreDesc(type_scores)
  IN  IF type_scores = << >> THEN GeneralClassification
      ELSE [primary_type |-> sorted_types[1].query_type,
            secondary_types |-> SecondaryTypes(sorted_types),
            confidence_score |-> sorted_types[1].score,
            keywords_matched |-> KeywordsMatched(keyword_matches)]

(***************************************************************************)
(* generate_prompt                                                         *)
(***************************************************************************)

(* str.split(sep): the pieces between the separators, empty pieces kept. *)
RECURSIVE split(_, _)
split(text, sep) ==
  IF \A i \in 1..Len(text) : text[i] # sep THEN << text >>
  ELSE LET k == CHOOSE i \in 1..Len(text) :
                  text[i] = sep /\ \A j \in 1..(i - 1) : text[j] # sep
       IN  << SubSeq(text, 1, k - 1) >> \o split(SubSeq(text, k + 1, Len(text)), sep)

(* sep.join(pieces) *)
RECURSIVE join(_, _)
join(sep, pieces) ==
  IF pieces = << >> THEN << >>
  ELSE IF Len(pieces) = 1 THEN pieces[1]
  ELSE pieces[1] \o << sep >> \o join(sep, Tail(pieces))

(* pieces[start:stop] for 0 <= start <= stop *)
Slice(pieces, start, stop) == SubSeq(pieces, start + 1, Min(stop, Len(pieces)))

(* The default of SPECIALIZED_CONTEXTS.get(primary_type, ...). *)
FallbackContext ==
  << "Provide a clear, technical response with relevant 3GPP specification references." >>

PrimaryContext(primary_type) ==
  IF primary_type \in SPECIALIZED_CONTEXTS_keys
  THEN SPECIALIZED_CONTEXTS[primary_type]
  ELSE FallbackContext

(* A variant of SecondaryExcerpt: context_lines[2:5]. *)
SecondaryExcerptBullets(secondary_type) ==
  IF secondary_type \in SPECIALIZED_CONTEXTS_keys
  THEN Slice(split(SPECIALIZED_CONTEXTS[secondary_type], "\n"), 2, 5)
  ELSE << >>

(* The lines one secondary type adds to secondary_contexts:           *)
(* context_lines = template.split('\n'), then context_lines[1:4].     *)
SecondaryExcerpt(secondary_type) ==
  IF secondary_type \in SPECIALIZED_CONTEXTS_keys
  THEN Slice(split(SPECIALIZED_CONTEXTS[secondary_type], "\n"), 1, 4)
  ELSE << >>

(***************************************************************************)
(* "for secondary_type in classification.secondary_types" iterates a set   *)
(* of Enum members.  CPython walks the set's hash table slot by slot; an   *)
(* Enum member hashes as its name, a str, and str hashes are salted with a *)
(* seed drawn when the process starts.  The order is therefore a function  *)
(* of the process's seed and of the set, the same for every iteration of   *)
(* the same set within a process, and any order of the members is the      *)
(* order of some seed: the seed picks the permutation.                     *)
(***************************************************************************)
RECURSIVE Factorial(_)
Factorial(n) == IF n <= 1 THEN 1 ELSE n * Factorial(n - 1)

RemoveAt(s, i) == SubSeq(s, 1, i - 1) \o SubSeq(s, i + 1, Len(s))

RECURSIVE NthPermutation(_, _)
NthPermutation(s, n) ==
  IF s = << >> THEN << >>
  ELSE LET f == Factorial(Len(s) - 1)
           i == ((n \div f) % Len(s)) + 1
       IN  << s[i] >> \o NthPermutation(RemoveAt(s, i), n % f)

SetIteration(members, hash_seed) ==
  NthPermutation(SelectSeq(QueryType, LAMBDA t : t \in members), hash_seed)

RECURSIVE SecondaryContexts(_)
SecondaryContexts(iteration) ==
  IF iteration = << >> THEN << >>
  ELSE SecondaryExcerpt(Head(iteration)) \o SecondaryContexts(Tail(iteration))

Digits == << "0", "1", "2", "3", "4", "5", "6", "7", "8", "9" >>

(* A variant of Format2f: f"{confidence_score:.1f}". *)
Format1f(tenths) == << Digits[(tenths \div 10) + 1], ".", Digits[(tenths % 10) + 1] >>

(* f"{confidence_score:.2f}" of a score given in tenths *)
Format2f(tenths) ==
  LET hundredths == tenths * 10
  IN  << Digits[(hundredths \div 100) + 1], ".",
         Digits[((hundredths \div 10) % 10) + 1], Digits[(hundredths % 10) + 1] >>

Indent == "        "

(* A variant of SecondaryNames: only the first name is written. *)
SecondaryNamesFirstOnly(iteration) ==
  IF iteration = << >> THEN << >> ELSE << value[iteration[1]] >>

(* ', '.join(t.value for t in classification.secondary_types) *)
SecondaryNames(iteration) ==
  join(", ", [i \in 1..Len(iteration) |-> << value[iteration[i]] >>])

(* The f-string combined_context. *)
CombinedContext(classification, secondary_contexts, iteration, user_query) ==
  << "\n", Indent, "Primary Focus - ", value[classification.primary_type], ":",
     "\n", Indent >>
  \o PrimaryContext(classification.primary_type)
  \o << "\n", Indent, "\n", Indent >>
  \o (IF secondary_contexts # << >> THEN << "Additional Considerations:" >> ELSE << >>)
  \o << "\n", Indent >>
  \o join("\n", secondary_contexts)
  \o << "\n", Indent, "\n", Indent, "Query Classification Confidence: " >>
  \o Format2f(classification.confidence_score)
  \o << "\n", Indent, "\n", Indent, "User Query: " >>
  \o user_query
  \o << "\n", Indent, "\n", Indent, "Response Guidelines:",
        "\n", Indent, "1. Start with a clear overview",
        "\n", Indent, "2. Focus on ", value[classification.primary_type],
                      "-related aspects",
        "\n", Indent, "3. Include relevant 3GPP specification references",
        "\n", Indent, "4. Provide practical examples where applicable",
        "\n", Indent, "5. Consider interdependencies with " >>
  \o (IF classification.secondary_types # {}
      THEN SecondaryNames(iteration) ELSE << "other aspects" >>)
  \o << "\n", Indent, "6. Conclude with key takeaways and considerations",
        "\n", Indent >>

(* generate_prompt in a process whose hash seed is hash_seed: the         *)
(* classification, the local secondary_contexts and the returned string.  *)
generate_prompt(user_query, hash_seed) ==
  LET c == _classify_query(user_query)
      iteration == SetIteration(c.secondary_types, hash_seed)
      contexts == SecondaryContexts(iteration)
  IN  [classification |-> c,
       secondary_contexts |-> contexts,
       prompt |-> CombinedContext(c, contexts, iteration, user_query)]

(***************************************************************************)
(* Inputs: queries of up to MaxWords words of the vocabulary, separated by *)
(* one space, and the hash seeds 0..MaxSeed.                               *)
(***************************************************************************)
MaxWords == 2
MaxSeed == 1

Vocabulary ==
  { <<"h","e","l","l","o">>,
    <<"f","l","o","w">>,
    <<"S","e","r","v","i","c","e">>,
    <<"b","e","t","w","e","e","n">>,
    <<"K","E","Y">>,
    <<"f","u","n","c","t","i","o","n","a","l","i","t","y">>,
    <<"l",DotlessI,"n","k">>,
    <<"s","c","a","n","n","e","r">>,
    <<"c","o","m","m","u","n","i","c","a","t","e">> }

RECURSIVE QueriesOf(_)
QueriesOf(n) ==
  IF n = 0 THEN { << >> }
  ELSE IF n = 1 THEN Vocabulary
  ELSE { w \o << " " >> \o q : w \in Vocabulary, q \in QueriesOf(n - 1) }

Queries == UNION { QueriesOf(n) : n \in 0..MaxWords }

HashSeeds == 0..MaxSeed

(* The query with its letters changed in case. *)
CaseVariants(q) == { upper(q), lower(q), swapcase(q) }

(***************************************************************************)
(* State: one process and its calls.                                       *)
(***************************************************************************)
VARIABLES
  pc,                  \* "start", "classified", "variant", "prompted", "again"
  hash_seed,           \* the str-hash seed of the running process
  user_query,          \* the argument of the last call
  classification,      \* what _classify_query last returned
  secondary_contexts,  \* generate_prompt's local, as it stood at the return
  prompt,              \* what generate_prompt last returned
  prev_query,          \* the argument of the call before the last
  prev_classification, \* the classification of the call before the last
  prev_prompt          \* the prompt of the call before the last

vars == << pc, hash_seed, user_query, classification, secondary_contexts, prompt,
           prev_query, prev_classification, prev_prompt >>

Init ==
  /\ pc = "start"
  /\ hash_seed \in HashSeeds
  /\ user_query = << >>
  /\ classification = GeneralClassification
  /\ secondary_contexts = << >>
  /\ prompt = << >>
  /\ prev_query = << >>
  /\ prev_classification = GeneralClassification
  /\ prev_prompt = << >>

(* main()'s direct call assistant.prompt_generator._classify_query(query) *)
ClassifyQuery(q) ==
  /\ pc = "start"
  /\ pc' = "classified"
  /\ user_query' = q
  /\ classification' = _classify_query(q)
  /\ UNCHANGED << hash_seed, secondary_contexts, prompt, prev_query, prev_classification,
                  prev_prompt >>

(* A second call, on the same query with letters changed in case. *)
ClassifyVariant(q) ==
  /\ pc = "classified"
  /\ q \in CaseVariants(user_query)
  /\ pc' = "variant"
  /\ user_query' = q
  /\ prev_query' = user_query
  /\ prev_classification' = classification
  /\ classification' = _classify_query(q)
  /\ UNCHANGED << hash_seed, secondary_contexts, prompt, prev_prompt >>

GeneratePrompt(q) ==
  /\ pc = "start"
  /\ pc' = "prompted"
  /\ user_query' = q
  /\ LET r == generate_prompt(q, hash_seed)
     IN  /\ classification' = r.classification
         /\ secondary_contexts' = r.secondary_contexts
         /\ prompt' = r.prompt
  /\ UNCHANGED << hash_seed, prev_query, prev_classification, prev_prompt >>

(* generate_prompt on the same query once more, in the same process *)
(* (seed = hash_seed) or in a new one (any seed).                   *)
GenerateAgain(seed) ==
  /\ pc = "prompted"
  /\ pc' = "again"
  /\ hash_seed' = seed
  /\ prev_query' = user_query
  /\ prev_classification' = classification
  /\ prev_prompt' = prompt
  /\ LET r == generate_prompt(user_query, seed)
     IN  /\ classification' = r.classification
         /\ secondary_contexts' = r.secondary_contexts
         /\ prompt' = r.prompt
  /\ UNCHANGED user_query

Next ==
  \/ \E q \in Queries : ClassifyQuery(q)
  \/ \E q \in Queries : GeneratePrompt(q)
  \/ \E q \in CaseVariants(user_query) : ClassifyVariant(q)
  \/ \E seed \in HashSeeds : GenerateAgain(seed)

Spec == Init /\ [][Next]_vars


(***************************************************************************)
(* Properties.  What a classification should be is stated from the query   *)
(* and the keyword table alone.                                            *)
(***************************************************************************)
Classified == pc \in {"classified", "variant", "prompted", "again"}
Composed == pc \in {"prompted", "again"}

KeywordTypes == { QUERY_KEYWORDS_keys[i] : i \in 1..Len(QUERY_KEYWORDS_keys) }
PrioritySet == { Priorities[i] : i \in 1..Len(Priorities) }

(* The places in a tier's list of the keywords that occur in the lowercased query. *)
Occurring(query_type, priority, query) ==
  LET query_lower == lower(query)
      keywords == QUERY_KEYWORDS[query_type][priority]
  IN  { i \in 1..Len(keywords) : Contains(keywords[i], query_lower) }

NoKeywordOccurs(query) ==
  \A t \in KeywordTypes : \A p \in PrioritySet : Occurring(t, p, query) = {}

MatchedTypes(query) ==
  { t \in KeywordTypes : \E p \in PrioritySet : Occurring(t, p, query) # {} }

(* 1.0*h + 0.6*m + 0.3*l in tenths, each distinct keyword counted once *)
RawScore(query_type, query) ==
  IF query_type \notin KeywordTypes THEN 0
  ELSE 10 * Cardinality(Occurring(query_type, "high_priority", query))
       + 6 * Cardinality(Occurring(query_type, "medium_priority", query))
       + 3 * Cardinality(Occurring(query_type, "low_priority", query))

ExpectedScore(query_type, query) ==
  LET raw == RawScore(query_type, query) IN IF raw > 10 THEN 10 ELSE raw

(* The score of every type that has keywords, as a set of pairs. *)
ExpectedScores(query) ==
  { << t, ExpectedScore(t, query) >> : t \in KeywordTypes }

DeclIndex(query_type) == CHOOSE i \in 1..Len(QueryType) : QueryType[i] = query_type

(* The number of places at which the keyword starts in the text. *)
Occurrences(keyword, text) ==
  Cardinality({ i \in 1..(Len(text) - Len(keyword) + 1) :
                  \A j \in 1..Len(keyword) : text[i + j - 1] = keyword[j] })

(* The keywords of a tier that occur, each once, in the table's order. *)
ExpectedKeywords(query_type, priority, query) ==
  LET idx == Occurring(query_type, priority, query)
  IN  [n \in 1..Cardinality(idx) |->
         QUERY_KEYWORDS[query_type][priority]
           [CHOOSE i \in idx : Cardinality({ j \in idx : j <= i }) = n]]

(* C1: when no keyword phrase of any type occurs in the lowercased query  *)
(* (the empty query included), _classify_query returns primary GENERAL,    *)
(* no secondary type, confidence 0.0 and an empty keywords_matched.        *)
C1_NoMatchIsGeneral ==
  (Classified /\ NoKeywordOccurs(user_query)) =>
    /\ classification.primary_type = "GENERAL"
    /\ classification.secondary_types = {}
    /\ classification.confidence_score = 0
    /\ classification.keywords_matched = << >>

C1_Witness ==
  /\ pc = "classified"
  /\ user_query # << >>
  /\ NoKeywordOccurs(user_query)
  /\ classification.primary_type = "GENERAL"

(* C2: when some keyword occurs, the primary type is a non-GENERAL type    *)
(* whose score is the maximum over all types, and among the types of that  *)
(* score it is the one declared earliest in QueryType.                     *)
C2_PrimaryIsFirstMaximum ==
  (Classified /\ ~NoKeywordOccurs(user_query)) =>
    LET p == classification.primary_type
        scores == ExpectedScores(user_query)
    IN  /\ p # "GENERAL"
        /\ \E sp \in scores :
             /\ sp[1] = p
             /\ sp[2] > 0
             /\ \A st \in scores :
                  /\ st[2] <= sp[2]
                  /\ st[2] = sp[2] => DeclIndex(p) <= DeclIndex(st[1])

C2_Witness ==
  /\ pc = "classified"
  /\ classification.primary_type # "GENERAL"
  /\ \E t \in KeywordTypes \ {classification.primary_type} :
       /\ ExpectedScore(t, user_query) = classification.confidence_score
       /\ classification.confidence_score < 10

(* C3: the confidence score lies in [0.0, 1.0] and is                      *)
(* min(1.0, 1.0*h + 0.6*m + 0.3*l) for the numbers h, m, l of distinct     *)
(* high, medium and low keywords of the primary type that occur in the     *)
(* lowercased query, a keyword counting once however often it occurs.      *)
C3_ConfidenceIsClampedSum ==
  Classified =>
    /\ classification.confidence_score \in 0..10
    /\ classification.confidence_score
         = ExpectedScore(classification.primary_type, user_query)

C3_Witness ==
  /\ pc = "classified"
  /\ RawScore(classification.primary_type, user_query) > 10
  /\ \E p \in PrioritySet :
       \E i \in Occurring(classification.primary_type, p, user_query) :
         Occurrences(QUERY_KEYWORDS[classification.primary_type][p][i],
                     lower(user_query)) >= 2

(* C4: secondary_types is exactly the set of types other than the primary *)
(* whose score is strictly greater than 0.3.                               *)
C4_SecondaryTypesAboveThreshold ==
  Classified =>
    classification.secondary_types
      = { st[1] : st \in { x \in ExpectedScores(user_query) :
                             x[1] # classification.primary_type /\ x[2] > 3 } }

C4_Witness ==
  /\ pc = "classified"
  /\ classification.secondary_types # {}
  /\ \E t \in KeywordTypes \ {classification.primary_type} :
       ExpectedScore(t, user_query) = 3

(* C5: two runs of generate_prompt on the same query, in the same process *)
(* or in different ones, return the identical prompt string.               *)
C5_SamePromptEveryRun ==
  pc = "again" => prompt = prev_prompt

AsciiChars == (DOMAIN ToLower) \cup ((DOMAIN ToUpper) \ {DotlessI}) \cup {" "}
IsAscii(query) == \A i \in 1..Len(query) : query[i] \in AsciiChars

(* C6 as claimed: for every query, the query and the query with letters   *)
(* changed in case get the same classification.                            *)
C6_CaseInsensitive ==
  pc = "variant" => classification = prev_classification

(* C6 as amended: for every query made of ASCII characters, the query and *)
(* the query with letters changed in case get the same classification.     *)
C6_CaseInsensitiveAscii ==
  (pc = "variant" /\ IsAscii(prev_query)) => classification = prev_classification

C6_Witness ==
  /\ pc = "variant"
  /\ IsAscii(prev_query)
  /\ user_query # prev_query
  /\ classification.primary_type # "GENERAL"

(* C7: when some keyword occurs, keywords_matched has an entry for every  *)
(* type with a keyword occurring in the lowercased query, whether primary, *)
(* secondary or neither, and for no other type; an entry lists, for each   *)
(* tier that matched and no other, the matched keywords of the tier, each  *)
(* once, in the table's order.                                             *)
C7_KeywordsMatchedIsFullRecord ==
  (Classified /\ ~NoKeywordOccurs(user_query)) =>
    LET km == classification.keywords_matched
        matched == MatchedTypes(user_query)
    IN  /\ { km[i].key : i \in 1..Len(km) } = { str(t) : t \in matched }
        /\ Len(km) = Cardinality(matched)
        /\ \A i \in 1..Len(km) : \A t \in matched :
             km[i].key = str(t) =>
               LET v == km[i].val
                   tiers == { p \in PrioritySet : Occurring(t, p, user_query) # {} }
               IN  /\ { v[n].priority : n \in 1..Len(v) } = tiers
                   /\ Len(v) = Cardinality(tiers)
                   /\ \A n \in 1..Len(v) :
                        v[n].keywords = ExpectedKeywords(t, v[n].priority, user_query)

C7_Witness ==
  /\ pc = "classified"
  /\ \E t \in MatchedTypes(user_query) :
       /\ t # classification.primary_type
       /\ t \notin classification.secondary_types
       /\ \E i \in 1..Len(classification.keywords_matched) :
            classification.keywords_matched[i].key = str(t)
  /\ \E t \in MatchedTypes(user_query) : \E p \in PrioritySet :
       Cardinality(Occurring(t, p, user_query)) >= 2

DigitSet == { Digits[i] : i \in 1..Len(Digits) }
DigitValue(d) == CHOOSE n \in 0..9 : Digits[n + 1] = d

(* C8: the prompt holds the query verbatim and whole after the label      *)
(* "User Query: ", and the confidence score with exactly two decimal       *)
(* digits after "Query Classification Confidence: ", the confidence line   *)
(* coming before the query line.                                           *)
C8_QueryAndConfidenceInPrompt ==
  Composed =>
    \E i \in 1..Len(prompt) : \E j \in 1..(i - 1) :
      /\ prompt[i] = "User Query: "
      /\ SubSeq(prompt, i + 1, i + Len(user_query)) = user_query
      /\ prompt[i + Len(user_query) + 1] = "\n"
      /\ prompt[j] = "Query Classification Confidence: "
      /\ j + 5 <= Len(prompt)
      /\ prompt[j + 1] \in DigitSet
      /\ prompt[j + 2] = "."
      /\ prompt[j + 3] \in DigitSet
      /\ prompt[j + 4] \in DigitSet
      /\ prompt[j + 5] = "\n"
      /\ 100 * DigitValue(prompt[j + 1]) + 10 * DigitValue(prompt[j + 3])
           + DigitValue(prompt[j + 4]) = 10 * classification.confidence_score

C8_Witness ==
  /\ pc = "prompted"
  /\ user_query # << >>
  /\ classification.confidence_score = 9

(* The lines of a template as a reader counts them: the header first. *)
TemplateLines(query_type) ==
  SelectSeq(SPECIALIZED_CONTEXTS[query_type], LAMBDA tok : tok # "\n")

(* The three lines stand in the prompt, one after the other. *)
LinesInPrompt(l1, l2, l3) ==
  \E i \in 1..(Len(prompt) - 4) : SubSeq(prompt, i, i + 4) = << l1, "\n", l2, "\n", l3 >>

(* C9 as claimed: the excerpt of a secondary type is the 2nd to 4th line  *)
(* of its template counting the header as the 1st, that is the first three *)
(* bullets, and the header is not among the excerpts.                      *)
C9_ExcerptIsFirstThreeBullets ==
  Composed =>
    \A t \in classification.secondary_types :
      LET L == TemplateLines(t)
      IN  /\ \E k \in 0..(Cardinality(classification.secondary_types) - 1) :
               SubSeq(secondary_contexts, 3 * k + 1, 3 * k + 3)
                 = << << L[2] >>, << L[3] >>, << L[4] >> >>
          /\ \A i \in 1..Len(secondary_contexts) : secondary_contexts[i] # << L[1] >>

(* C9 as amended: the excerpt of a secondary type is the header line of   *)
(* its template followed by its first two bullets (the 2nd to 4th piece of *)
(* the template split at its newlines, the 1st piece being the empty text  *)
(* before the header); these three lines stand in the prompt, and the      *)
(* third bullet is not among the excerpts.                                 *)
C9_ExcerptIsHeaderAndTwoBullets ==
  Composed =>
    /\ Len(secondary_contexts) = 3 * Cardinality(classification.secondary_types)
    /\ \A t \in classification.secondary_types :
         LET L == TemplateLines(t)
         IN  /\ \E k \in 0..(Cardinality(classification.secondary_types) - 1) :
                  SubSeq(secondary_contexts, 3 * k + 1, 3 * k + 3)
                    = << << L[1] >>, << L[2] >>, << L[3] >> >>
             /\ LinesInPrompt(L[1], L[2], L[3])
             /\ \A i \in 1..Len(secondary_contexts) : secondary_contexts[i] # << L[4] >>

C9_Witness ==
  /\ pc = "prompted"
  /\ Cardinality(classification.secondary_types) >= 2

HasToken(text, tok) == \E i \in 1..Len(text) : text[i] = tok

(* The tokens of the line after the first token tok, up to the line's end. *)
RestOfLine(text, tok) ==
  LET g == CHOOSE i \in 1..Len(text) : text[i] = tok /\ \A j \in 1..(i - 1) : text[j] # tok
      e == CHOOSE k \in (g + 1)..Len(text) :
             text[k] = "\n" /\ \A j \in (g + 1)..(k - 1) : text[j] # "\n"
  IN  SubSeq(text, g + 1, e - 1)

(* C10: the prompt has the "Additional Considerations:" header exactly    *)
(* when there is a secondary type; guideline 5 holds "other aspects"       *)
(* exactly when there is none, and otherwise the comma-joined names of all *)
(* secondary types; the generic instruction stands for the primary         *)
(* template exactly when the primary type is GENERAL.                      *)
C10_ConditionalParts ==
  Composed =>
    LET sec == classification.secondary_types
        item5 == RestOfLine(prompt, "5. Consider interdependencies with ")
        focus == CHOOSE i \in 1..Len(prompt) : prompt[i] = "Primary Focus - "
        primary == classification.primary_type
    IN  /\ HasToken(prompt, "Additional Considerations:") <=> (sec # {})
        /\ HasToken(item5, "other aspects") <=> (sec = {})
        /\ sec = {} => item5 = << "other aspects" >>
        /\ sec # {} =>
             /\ Len(item5) = 2 * Cardinality(sec) - 1
             /\ { item5[2 * n - 1] : n \in 1..Cardinality(sec) } = { value[t] : t \in sec }
             /\ \A n \in 1..(Cardinality(sec) - 1) : item5[2 * n] = ", "
        /\ HasToken(prompt, FallbackContext[1]) <=> (primary = "GENERAL")
        /\ primary = "GENERAL" =>
             SubSeq(prompt, focus + 5, focus + 6) = << FallbackContext[1], "\n" >>
        /\ primary # "GENERAL" =>
             SubSeq(prompt, focus + 5, focus + 4 + Len(SPECIALIZED_CONTEXTS[primary]))
               = SPECIALIZED_CONTEXTS[primary]

C10_Witness ==
  /\ pc = "again"
  /\ classification.primary_type = "GENERAL"
  /\ user_query # << >>
  /\ HasToken(prompt, "other aspects")

====
